---- MODULE Spec2Model ----
(***************************************************************************)
(* YCNBTS: the directory server (src/server/mod.rs, src/server/client.rs)  *)
(* and the peer client (src/client/mod.rs).                                *)
(*                                                                         *)
(* The server runs one accept loop (Server::run) and one reader task per   *)
(* connection (the closure given to tokio::spawn).  Every .await on the    *)
(* peer table lock or on a socket is a scheduling point; the actions below *)
(* are the stretches of code between those points.  A broadcast loop holds *)
(* the peer table lock from its first to its last write, so it is one      *)
(* action; the order in which it visits the HashMap is arbitrary.          *)
(*                                                                         *)
(* Four specifications share the state:                                    *)
(*   Spec        the server, with peers that may write any frame;          *)
(*   ClientSpec  one peer client, with a server that may write any frame;  *)
(*   PairSpec    the server's reader tasks and the peer clients together,  *)
(*               from the moment every connection is set up;               *)
(*   WireSpec    the bytes several server tasks write to one peer's        *)
(*               stream and the frames its reading loop recovers.          *)
(***************************************************************************)
EXTENDS Integers, Sequences, FiniteSets, TLC

\* ------------------------------------------------------------------ bounds
MaxConn ==
  3

MaxEvents ==
  2

MaxFrames ==
  3

\* --------------------------------------------------------------- universes
Conns == 1..MaxConn
Uuids == 1..MaxConn
NoConn == 0
NoUuid == 0
NoKey == 0
None == "None"
Names == {"", "alice"}
Keys == {1, 2}
Texts == {"hi"}

\* client/mod.rs 334-347: the envelope of a text, which only the private key
\* that goes with public key pk opens
Encrypt(pk, text) ==
  <<pk, text>>

Envelopes == {Encrypt(k, t) : k \in Keys, t \in Texts}
Descriptions == Names \X (Uuids \cup {MaxConn + 1})

VARIABLES
  clients,              \* Server.clients: HashMap<Uuid, Client>, uuid -> connection
  uuid,                 \* Client.uuid of each connection's record
  friendly_name,        \* Client.friendly_name of each connection's record
  closed,               \* the peer has closed its end of the connection
  stream,               \* frames written to each connection's write half
  acceptPc,             \* where Server::run is
  cur,                  \* the connection Server::run is setting up
  client_descriptions,  \* the snapshot being collected / about to be sent
  snapTodo,             \* entries the snapshot iterator has not visited yet
  snapTable,            \* history: the table the snapshot iterates over
  snapRenamed,          \* history: connections that advertised since the snapshot began
  readerPc,             \* where each connection's reader task is
  events,               \* number of frames decoded by reader tasks plus peers that closed
  dropped,              \* history: connections that had a frame dropped for an absent target
  client,               \* the peer process of each connection: the fields of client::Client
  handled,              \* number of frames each peer's Client::handle has taken off its stream
  handlePc,             \* where each peer's Client::handle task is
  uiPc,                 \* where each peer's Client::run_ui is
  sent,                 \* frames each peer has written to the server, not yet read by it
  wire,                 \* bytes written to one peer's write half, in the order written
  writeable_half,       \* the tasks holding that write half's mutex guard
  buffer_with_length,   \* what is left of the buffer each task is writing
  written               \* history: the payloads of the frames, in the order the mutex was taken

tableVars == <<clients, uuid, friendly_name, acceptPc, cur,
               client_descriptions, snapTodo, snapTable, snapRenamed,
               readerPc, events, dropped>>
serverVars == <<tableVars, stream>>
clientVars == <<client, handled, handlePc, uiPc>>
wireVars == <<wire, writeable_half, buffer_with_length, written>>
vars == <<serverVars, closed, clientVars, sent, wireVars>>

\* ----------------------------------------------------------- wire messages
\* shared/messages.rs: ClientBoundMessage
SetUuid(u) ==
  [type |-> "SetUuid", uuid |-> u]
ClientList(l) ==
  [type |-> "ClientList", list |-> l]
NewClient(d) ==
  [type |-> "NewClient", desc |-> d]
ClientDisconnected(u) ==
  [type |-> "ClientDisconnected", uuid |-> u]
ConnectionRequest(d, k) ==
  [type |-> "ConnectionRequest", desc |-> d, key |-> k]
ConnectionResponse(d, k) ==
  [type |-> "ConnectionResponse", desc |-> d, key |-> k]
Message(d, e) ==
  [type |-> "Message", desc |-> d, envelope |-> e]

\* a payload that is no encoding of a message
Undecodable ==
  [type |-> "Undecodable"]

\* shared/messages.rs: ServerBoundMessage (the other variants have the shape
\* of the ClientBoundMessage variants of the same name)
Advertise(name) ==
  [type |-> "Advertise", name |-> name]

\* ----------------------------------------------------------------- helpers
EmptyMap == [x \in {} |-> 0]
MapPut(m, k, v) == [x \in DOMAIN m \cup {k} |-> IF x = k THEN v ELSE m[x]]
MapRemove(m, k) == [x \in DOMAIN m \ {k} |-> m[x]]

\* the connections that have a record in the table
Table == {clients[u] : u \in DOMAIN clients}

UsedUuids == {uuid[c] : c \in Conns} \ {NoUuid}

\* a generator that hands out a value it has handed out before
NewV4Reused(used) ==
  1

\* mod.rs 31: uuid::Uuid::new_v4(), a value no earlier connection was given
NewV4(used) ==
  CHOOSE u \in Uuids \ used : \A v \in Uuids \ used : u <= v

\* friendly_name.lock().unwrap().clone().unwrap_or("".to_string())
NameOrEmpty(c) ==
  IF friendly_name[c] = None THEN "" ELSE friendly_name[c]

\* the process lives as long as Server::run has not panicked
ServerAlive == acceptPc # "panicked"

\* the peer table lock is held across the whole snapshot iteration
LockFree == acceptPc # "snapshot"

\* a write that puts the frame ahead of the frames already written
DeliverFirst(D, f) ==
  [c \in Conns |-> IF c \in D THEN <<f>> \o stream[c] ELSE stream[c]]

\* client.rs 18-32: Client::send_message of frame f on each record of D, when
\* write_all succeeds (length prefix and payload go out as one buffer)
Deliver(D, f) ==
  [c \in Conns |-> IF c \in D THEN Append(stream[c], f) ELSE stream[c]]

NewClientState ==
  [uuid |-> NoUuid, peer_list |-> <<>>, connection_requests |-> EmptyMap,
   open_connections |-> EmptyMap, current_channel |-> NoUuid]

Init ==
  /\ clients = EmptyMap
  /\ uuid = [c \in Conns |-> NoUuid]
  /\ friendly_name = [c \in Conns |-> None]
  /\ closed = [c \in Conns |-> FALSE]
  /\ stream = [c \in Conns |-> <<>>]
  /\ acceptPc = "accept"
  /\ cur = NoConn
  /\ client_descriptions = <<>>
  /\ snapTodo = {}
  /\ snapTable = EmptyMap
  /\ snapRenamed = {}
  /\ readerPc = [c \in Conns |-> "none"]
  /\ events = 0
  /\ dropped = {}
  /\ client = [c \in Conns |-> NewClientState]
  /\ handled = [c \in Conns |-> 0]
  /\ handlePc = [c \in Conns |-> "run"]
  /\ uiPc = [c \in Conns |-> "start"]
  /\ sent = [c \in Conns |-> <<>>]
  /\ wire = <<>>
  /\ writeable_half = {}
  /\ buffer_with_length = [t \in Conns |-> <<>>]
  /\ written = <<>>

\* ------------------------------------------------------------ accept loop
\* mod.rs 29-45: accept, new_v4, build the record, insert it, spawn the reader
Accept ==
  /\ ServerAlive
  /\ acceptPc = "accept"
  /\ \E c \in Conns :
       /\ uuid[c] = NoUuid
       /\ \A b \in Conns : b < c => uuid[b] # NoUuid
       /\ LET u == NewV4(UsedUuids) IN
            /\ uuid' = [uuid EXCEPT ![c] = u]
            /\ clients' = MapPut(clients, u, c)
       /\ readerPc' = [readerPc EXCEPT ![c] = "read"]
       /\ cur' = c
  /\ acceptPc' = "sendUuid"
  /\ UNCHANGED <<clientVars, sent, wireVars, friendly_name, closed, stream,
                 client_descriptions, snapTodo, snapTable, snapRenamed, events,
                 dropped>>

\* a write of Server::run fails: send_message unwraps the error, the panic
\* leaves Server::run and main, and the process ends with all its sockets
AcceptorPanic ==
  /\ closed[cur]
  /\ acceptPc' = "panicked"
  /\ closed' = [c \in Conns |-> TRUE]
  /\ UNCHANGED <<clientVars, sent, wireVars, clients, uuid, friendly_name,
                 stream, cur, client_descriptions, snapTodo, snapTable,
                 snapRenamed, readerPc, events, dropped>>

\* mod.rs 127-128: client.send_message(SetUuid(uuid)), no table lock held
SendUuid ==
  /\ ServerAlive
  /\ acceptPc = "sendUuid"
  /\ \/ /\ stream' = Deliver({cur}, SetUuid(uuid[cur]))
        /\ acceptPc' = "describe"
        /\ UNCHANGED <<clientVars, sent, wireVars, clients, uuid, friendly_name,
                       closed, cur, client_descriptions, snapTodo, snapTable,
                       snapRenamed, readerPc, events, dropped>>
     \/ AcceptorPanic

\* mod.rs 130-131: self.clients.lock().await.iter()
SnapshotBegin ==
  /\ ServerAlive
  /\ acceptPc = "describe"
  /\ snapTodo' = DOMAIN clients
  /\ snapTable' = clients
  /\ snapRenamed' = {}
  /\ client_descriptions' = <<>>
  /\ acceptPc' = IF DOMAIN clients = {} THEN "sendList" ELSE "snapshot"
  /\ UNCHANGED <<clientVars, sent, wireVars, clients, uuid, friendly_name,
                 closed, stream, cur, readerPc, events, dropped>>

\* a filter that lets every record through
SnapshotFilterAll(c) ==
  TRUE

\* mod.rs 132: .filter(|(_, c)| c.friendly_name.lock().unwrap().is_some())
SnapshotFilter(c) ==
  friendly_name[c] # None

\* mod.rs 133: .map(|(uuid, client)| (client.friendly_name...unwrap(), *uuid))
SnapshotEntry(u, c) ==
  <<friendly_name[c], u>>

\* mod.rs 131-134: the iterator visits one entry of the HashMap, in any order
SnapshotStep ==
  /\ ServerAlive
  /\ acceptPc = "snapshot"
  /\ \E u \in snapTodo :
       /\ snapTodo' = snapTodo \ {u}
       /\ client_descriptions' =
            IF SnapshotFilter(clients[u])
              THEN Append(client_descriptions, SnapshotEntry(u, clients[u]))
              ELSE client_descriptions
       /\ acceptPc' = IF snapTodo = {u} THEN "sendList" ELSE "snapshot"
  /\ UNCHANGED <<clientVars, sent, wireVars, clients, uuid, friendly_name,
                 closed, stream, cur, snapTable, snapRenamed, readerPc, events,
                 dropped>>

\* mod.rs 138-139: client.send_message(ClientList(client_descriptions))
SendList ==
  /\ ServerAlive
  /\ acceptPc = "sendList"
  /\ \/ /\ stream' = Deliver({cur}, ClientList(client_descriptions))
        /\ acceptPc' = "accept"
        /\ cur' = NoConn
        /\ client_descriptions' = <<>>
        /\ snapTable' = EmptyMap
        /\ snapRenamed' = {}
        /\ UNCHANGED <<clientVars, sent, wireVars, clients, uuid, friendly_name,
                       closed, snapTodo, readerPc, events, dropped>>
     \/ AcceptorPanic

\* ------------------------------------------------------------ reader tasks
Reading(c) ==
  ServerAlive /\ readerPc[c] = "read" /\ events < MaxEvents

\* the writes of one reader-task operation, made while it holds the table
\* lock: frame f goes to the records T.  A write to a connection whose peer
\* has closed may fail; send_message unwraps the error and the task panics,
\* leaving the records it had not reached yet (any of them: HashMap order)
\* unwritten.  Otherwise the task goes on at okPc.
Writes(c, T, f, okPc) ==
  \E bad \in {t \in T : closed[t]} \cup {NoConn} :
    \E D \in (IF bad = NoConn THEN {T} ELSE SUBSET (T \ {bad})) :
      /\ stream' = Deliver(D, f)
      /\ readerPc' = [readerPc EXCEPT ![c] = IF bad = NoConn THEN okPc ELSE "panicked"]

\* mod.rs 84-85: Advertise(name) decoded, the friendly name is set (its own
\* std mutex, the table lock is not held)
ReadAdvertise(c, name) ==
  /\ Reading(c)
  /\ events' = events + 1
  /\ friendly_name' = [friendly_name EXCEPT ![c] = name]
  /\ readerPc' = [readerPc EXCEPT ![c] = "advertise"]
  /\ snapRenamed' = IF acceptPc \in {"snapshot", "sendList"}
                      THEN snapRenamed \cup {c} ELSE snapRenamed
  /\ UNCHANGED <<clientVars, wireVars, clients, uuid, closed, stream, acceptPc,
                 cur, client_descriptions, snapTodo, snapTable, dropped>>

\* mod.rs 86-89: NewClient((name, uuid)) to every record of the table
AdvertiseBroadcast(c) ==
  /\ ServerAlive
  /\ readerPc[c] = "advertise"
  /\ LockFree
  /\ Writes(c, Table, NewClient(<<friendly_name[c], uuid[c]>>), "read")
  /\ UNCHANGED <<clientVars, sent, wireVars, clients, uuid, friendly_name,
                 closed, acceptPc, cur, client_descriptions, snapTodo,
                 snapTable, snapRenamed, events, dropped>>

\* a lookup that falls back to every record when the target has none
LookupOrAll(t) ==
  IF t \in DOMAIN clients THEN {clients[t]} ELSE Table

\* mod.rs 93-94, 101-102: clients_lock.get(&client_description.1), Some or None
Lookup(t) ==
  IF t \in DOMAIN clients THEN {clients[t]} ELSE {}

\* a forwarded description that keeps the id the request held
ForwardDescriptionFromBody(c, d) ==
  <<NameOrEmpty(c), IF d[2] \in UsedUuids THEN d[2] ELSE uuid[c]>>

\* mod.rs 95, 103: the description of a forwarded frame is the reader's own
\* (friendly name or "", uuid); the description d of the request is not used
ForwardDescription(c, d) ==
  <<NameOrEmpty(c), uuid[c]>>

\* mod.rs 91-98: ConnectionRequest(client_description): the frame built for
\* the target holds the description only
ReadConnectionRequest(c, d, k) ==
  /\ Reading(c)
  /\ LockFree
  /\ events' = events + 1
  /\ Writes(c, Lookup(d[2]), ConnectionRequest(ForwardDescription(c, d), NoKey), "read")
  /\ dropped' = IF d[2] \in DOMAIN clients THEN dropped ELSE dropped \cup {c}
  /\ UNCHANGED <<clientVars, wireVars, clients, uuid, friendly_name, closed,
                 acceptPc, cur, client_descriptions, snapTodo, snapTable,
                 snapRenamed>>

\* mod.rs 99-106: ConnectionResponse(client_description, response)
ReadConnectionResponse(c, d, k) ==
  /\ Reading(c)
  /\ LockFree
  /\ events' = events + 1
  /\ Writes(c, Lookup(d[2]), ConnectionResponse(ForwardDescription(c, d), k), "read")
  /\ dropped' = IF d[2] \in DOMAIN clients THEN dropped ELSE dropped \cup {c}
  /\ UNCHANGED <<clientVars, wireVars, clients, uuid, friendly_name, closed,
                 acceptPc, cur, client_descriptions, snapTodo, snapTable,
                 snapRenamed>>

\* mod.rs 107-109: every other variant, that is Message, is printed and dropped
ReadMessage(c, d, e) ==
  /\ Reading(c)
  /\ events' = events + 1
  /\ dropped' = IF d[2] \in DOMAIN clients THEN dropped ELSE dropped \cup {c}
  /\ UNCHANGED <<clientVars, wireVars, clients, uuid, friendly_name, closed,
                 stream, acceptPc, cur, client_descriptions, snapTodo,
                 snapTable, snapRenamed, readerPc>>

\* mod.rs 112-114: the payload does not decode; the error is printed and the
\* loop goes on
ReadUndecodable(c) ==
  /\ Reading(c)
  /\ events' = events + 1
  /\ UNCHANGED <<clientVars, wireVars, clients, uuid, friendly_name, closed,
                 stream, acceptPc, cur, client_descriptions, snapTodo,
                 snapTable, snapRenamed, readerPc, dropped>>

\* mod.rs 49-58, 66-75, 117-118: read_exact fails once the peer has closed,
\* the loop is left and the record stored under the reader's uuid is removed
ReadEof(c) ==
  /\ ServerAlive
  /\ readerPc[c] = "read"
  /\ closed[c]
  /\ LockFree
  /\ clients' = MapRemove(clients, uuid[c])
  /\ readerPc' = [readerPc EXCEPT ![c] = "disconnect"]
  /\ UNCHANGED <<clientVars, sent, wireVars, uuid, friendly_name, closed,
                 stream, acceptPc, cur, client_descriptions, snapTodo,
                 snapTable, snapRenamed, events, dropped>>

\* mod.rs 119-122: ClientDisconnected(uuid) to every record left in the table
DisconnectBroadcast(c) ==
  /\ ServerAlive
  /\ readerPc[c] = "disconnect"
  /\ LockFree
  /\ Writes(c, Table, ClientDisconnected(uuid[c]), "done")
  /\ UNCHANGED <<clientVars, sent, wireVars, clients, uuid, friendly_name,
                 closed, acceptPc, cur, client_descriptions, snapTodo,
                 snapTable, snapRenamed, events, dropped>>

\* ------------------------------------------------------------------- peers
\* the peer's process exits or its connection is reset
PeerClose(c) ==
  /\ uuid[c] # NoUuid
  /\ ~closed[c]
  /\ events < MaxEvents
  /\ events' = events + 1
  /\ closed' = [closed EXCEPT ![c] = TRUE]
  /\ UNCHANGED <<clientVars, sent, wireVars, clients, uuid, friendly_name,
                 stream, acceptPc, cur, client_descriptions, snapTodo,
                 snapTable, snapRenamed, readerPc, dropped>>

RECURSIVE RetainFirst(_, _)
\* a removal that stops at the first entry it removes
RetainFirst(l, u) ==
  IF l = <<>> THEN <<>>
  ELSE IF Head(l)[2] = u THEN Tail(l)
       ELSE <<Head(l)>> \o RetainFirst(Tail(l), u)

RECURSIVE Retain(_, _)
\* client/mod.rs 113: peer_list.retain(|(_, id)| *id != uuid)
Retain(l, u) ==
  IF l = <<>> THEN <<>>
  ELSE IF Head(l)[2] = u THEN Retain(Tail(l), u)
       ELSE <<Head(l)>> \o Retain(Tail(l), u)

\* client/mod.rs 40-50: the fields of Client::new that handle() writes

\* a test that never finds a pending request
HasRequestFromNever(st, id) ==
  FALSE

\* client/mod.rs 117-119: connection_requests.iter().any(|((_, id), _)| *id == ...)
HasRequestFrom(st, id) ==
  \E e \in DOMAIN st.connection_requests : e[2] = id

\* client/mod.rs 100-150: the match of Client::handle on one decoded frame
HandleFrame(st, f) ==
  CASE f.type = "SetUuid" -> [st EXCEPT !.uuid = f.uuid]
    [] f.type = "ClientList" -> [st EXCEPT !.peer_list = f.list]
    [] f.type = "NewClient" -> [st EXCEPT !.peer_list = Append(st.peer_list, f.desc)]
    [] f.type = "ClientDisconnected" ->
         [st EXCEPT !.peer_list = Retain(st.peer_list, f.uuid)]
    [] f.type = "ConnectionRequest" ->
         IF HasRequestFrom(st, f.desc[2])
           THEN st
           ELSE [st EXCEPT !.connection_requests = MapPut(st.connection_requests, f.desc, f.key)]
    [] f.type = "ConnectionResponse" ->
         [st EXCEPT !.open_connections = MapPut(st.open_connections, f.desc[2], f.key)]
    [] OTHER -> st

RECURSIVE Handled(_, _)
\* client/mod.rs 69-156: the loop of Client::handle over the first n frames
\* of the connection's stream
Handled(c, n) ==
  IF n = 0 THEN NewClientState
  ELSE HandleFrame(Handled(c, n - 1), stream[c][n])

\* ------------------------------------------------------------ peer clients
\* client/mod.rs 36-38: the RSA key pair generated by Client::new, one per
\* peer process
PublicKey(c) ==
  c

\* client/mod.rs 140-146: private_key.decrypt, cipher.decrypt and from_utf8
\* all succeed on an envelope made for this peer's public key
Decrypts(c, e) ==
  e[1] = PublicKey(c)

\* client/mod.rs 140-146: each of the three steps is unwrapped
HandlePanics(c, f) ==
  f.type = "Message" /\ ~Decrypts(c, f.envelope)

\* client/mod.rs 70-150: one turn of the loop of Client::handle on the decoded
\* frame f
ClientHandle(c, f) ==
  /\ handlePc[c] = "run"
  /\ handled' = [handled EXCEPT ![c] = @ + 1]
  /\ IF HandlePanics(c, f)
       THEN /\ handlePc' = [handlePc EXCEPT ![c] = "panicked"]
            /\ client' = client
       ELSE /\ client' = [client EXCEPT ![c] = HandleFrame(@, f)]
            /\ handlePc' = handlePc
  /\ UNCHANGED <<tableVars, closed, uiPc, sent, wireVars>>

\* client/mod.rs 151-153: the payload does not decode; the error is printed
ClientHandleUndecodable(c) ==
  /\ handlePc[c] = "run"
  /\ handled' = [handled EXCEPT ![c] = @ + 1]
  /\ UNCHANGED <<tableVars, closed, client, handlePc, uiPc, sent, wireVars>>

\* client/mod.rs 72-98: read_exact fails, the loop and the task end
ClientHandleEof(c) ==
  /\ handlePc[c] = "run"
  /\ handlePc' = [handlePc EXCEPT ![c] = "done"]
  /\ UNCHANGED <<serverVars, closed, client, handled, uiPc, sent, wireVars>>

\* frames decoded by the server, peers closed and frames still on their way
Queued ==
  events + Cardinality({<<c, i>> \in Conns \X (1..MaxEvents) : i <= Len(sent[c])})

\* client/mod.rs 53-67: Client::send_message
SendMessage(c, m) ==
  /\ Queued < MaxEvents
  /\ sent' = [sent EXCEPT ![c] = Append(@, m)]

\* client/mod.rs 161-178: the start of run_ui, with a friendly name or None
RunUiStart(c, name) ==
  /\ uiPc[c] = "start"
  /\ uiPc' = [uiPc EXCEPT ![c] = "loop"]
  /\ IF name = None THEN sent' = sent ELSE SendMessage(c, Advertise(name))
  /\ UNCHANGED <<serverVars, closed, client, handled, handlePc, wireVars>>

\* a test that finds a pairing for every id
AlreadyOpenAlways(c, u) ==
  TRUE

\* a test that never finds the pairing
AlreadyOpenNever(c, u) ==
  FALSE

\* client/mod.rs 248, 289: open_connections.contains_key(&uuid)
AlreadyOpen(c, u) ==
  u \in DOMAIN client[c].open_connections

\* client/mod.rs 248-260, 289-300: the end of open_connection once the peer is
\* chosen; d is the description put in the request
OpenChosen(c, d) ==
  IF AlreadyOpen(c, d[2])
    THEN /\ client' = [client EXCEPT ![c].current_channel = d[2]]
         /\ sent' = sent
    ELSE /\ SendMessage(c, ConnectionRequest(d, PublicKey(c)))
         /\ client' = client

\* client/mod.rs 243-261: open_connection(Some(uuid)), "open <uuid>"
OpenConnection(c, u) ==
  /\ uiPc[c] = "loop"
  /\ OpenChosen(c, <<"", u>>)
  /\ UNCHANGED <<serverVars, closed, handled, handlePc, uiPc, wireVars>>

\* client/mod.rs 243-246, 263-300: open_connection(None), the user selects
\* entry i of the peer list
OpenConnectionSelect(c, i) ==
  /\ uiPc[c] = "loop"
  /\ i \in 1..Len(client[c].peer_list)
  /\ OpenChosen(c, client[c].peer_list[i])
  /\ UNCHANGED <<serverVars, closed, handled, handlePc, uiPc, wireVars>>

\* client/mod.rs 303-329: accept_connection, the user selects the pending
\* request of description d
AcceptConnection(c, d) ==
  /\ uiPc[c] = "loop"
  /\ d \in DOMAIN client[c].connection_requests
  /\ client' = [client EXCEPT
       ![c].open_connections = MapPut(@, d[2], client[c].connection_requests[d])]
  /\ SendMessage(c, ConnectionResponse(d, PublicKey(c)))
  /\ UNCHANGED <<serverVars, closed, handled, handlePc, uiPc, wireVars>>

\* client/mod.rs 331-354: ui_send_message; open_connections.get is unwrapped
UiSendMessage(c, text) ==
  /\ uiPc[c] = "loop"
  /\ LET ch == client[c].current_channel IN
       IF ch = NoUuid
         THEN UNCHANGED <<uiPc, sent>>
         ELSE IF ch \in DOMAIN client[c].open_connections
           THEN /\ SendMessage(c, Message(<<"", ch>>,
                                  Encrypt(client[c].open_connections[ch], text)))
                /\ uiPc' = uiPc
           ELSE /\ uiPc' = [uiPc EXCEPT ![c] = "panicked"]
                /\ sent' = sent
  /\ UNCHANGED <<serverVars, closed, client, handled, handlePc, wireVars>>

\* --------------------------------------------------------------------- spec
\* a frame read in Spec comes from a peer that may write anything: it is read
\* as soon as it is written and nothing stays queued
Next ==
  \/ Accept
  \/ SendUuid
  \/ SnapshotBegin
  \/ SnapshotStep
  \/ SendList
  \/ \E c \in Conns : \E name \in Names :
       ReadAdvertise(c, name) /\ UNCHANGED sent
  \/ \E c \in Conns : AdvertiseBroadcast(c)
  \/ \E c \in Conns : \E d \in Descriptions : \E k \in Keys :
       ReadConnectionRequest(c, d, k) /\ UNCHANGED sent
  \/ \E c \in Conns : \E d \in Descriptions : \E k \in Keys :
       ReadConnectionResponse(c, d, k) /\ UNCHANGED sent
  \/ \E c \in Conns : \E d \in Descriptions : \E e \in Envelopes :
       ReadMessage(c, d, e) /\ UNCHANGED sent
  \/ \E c \in Conns : ReadUndecodable(c) /\ UNCHANGED sent
  \/ \E c \in Conns : ReadEof(c)
  \/ \E c \in Conns : DisconnectBroadcast(c)
  \/ \E c \in Conns : PeerClose(c)

Spec == Init /\ [][Next]_vars

\* ------------------------------------------------- one peer client, any server
\* the peer process whose connection is the first the server accepts
FirstConn ==
  CHOOSE c \in Conns : \A b \in Conns : c <= b

\* the id the server gives the first connection, and the descriptions of
\* the other peers it has given an id
OtherDescriptions ==
  Names \X (Uuids \ {NewV4({})})

\* shared/messages.rs 10: the lists a ClientList frame may hold
Snapshots ==
  {<<>>} \cup {<<d>> : d \in OtherDescriptions}
         \cup {l \in OtherDescriptions \X OtherDescriptions : l[1][2] # l[2][2]}

\* shared/messages.rs 8-16: the frames the first peer may be sent
ClientBound ==
  {SetUuid(NewV4({}))}
    \cup {ClientList(l) : l \in Snapshots}
    \cup {NewClient(d) : d \in OtherDescriptions}
    \cup {ClientDisconnected(d[2]) : d \in OtherDescriptions}
    \cup {ConnectionRequest(d, k) : d \in OtherDescriptions, k \in Keys}
    \cup {ConnectionResponse(d, k) : d \in OtherDescriptions, k \in Keys}
    \cup {Message(<<"", d[2]>>, e) : d \in OtherDescriptions, e \in Envelopes}

\* the frames read and written by the peer process are bounded together
Within(c) ==
  handled[c] + Len(sent[c]) < MaxFrames

\* main.rs 35-40: the handle task and run_ui of one peer process; the frames
\* it reads are any the schema allows
ClientNext ==
  \/ \E f \in ClientBound :
       /\ Within(FirstConn)
       /\ ClientHandle(FirstConn, f)
       /\ stream' = Deliver({FirstConn}, f)
  \/ /\ Within(FirstConn)
     /\ ClientHandleUndecodable(FirstConn)
     /\ stream' = Deliver({FirstConn}, Undecodable)
  \/ ClientHandleEof(FirstConn)
  \/ \E name \in Names \cup {None} : Within(FirstConn) /\ RunUiStart(FirstConn, name)
  \/ \E u \in Uuids : Within(FirstConn) /\ OpenConnection(FirstConn, u)
  \/ \E i \in 1..MaxFrames : Within(FirstConn) /\ OpenConnectionSelect(FirstConn, i)
  \/ \E d \in OtherDescriptions : Within(FirstConn) /\ AcceptConnection(FirstConn, d)
  \/ \E t \in Texts : Within(FirstConn) /\ UiSendMessage(FirstConn, t)

ClientSpec == Init /\ [][ClientNext]_vars

\* ------------------------------------------- the server and its peer clients
\* main.rs 35: a peer process runs once its connection is made, until it exits
Running(c) ==
  uuid[c] # NoUuid /\ ~closed[c]

\* server/mod.rs 47-111: the reader task of connection c reads the frame its
\* peer wrote first
ServerReads(c) ==
  /\ sent[c] # <<>>
  /\ sent' = [sent EXCEPT ![c] = Tail(@)]
  /\ LET m == Head(sent[c]) IN
       \/ m.type = "Advertise" /\ ReadAdvertise(c, m.name)
       \/ m.type = "ConnectionRequest" /\ ReadConnectionRequest(c, m.desc, m.key)
       \/ m.type = "ConnectionResponse" /\ ReadConnectionResponse(c, m.desc, m.key)

\* client/mod.rs 70-100: the handle task of peer c reads the next frame of
\* its stream
ClientReads(c) ==
  /\ Running(c)
  /\ handled[c] < Len(stream[c])
  /\ ClientHandle(c, stream[c][handled[c] + 1])
  /\ stream' = stream

\* server/mod.rs 29-139: every connection has been accepted, given its id and
\* its snapshot, while no peer had written anything; client/mod.rs 102-107:
\* every peer process has handled those two frames
PairInit ==
  /\ clients = [u \in Uuids |-> u]
  /\ uuid = [c \in Conns |-> c]
  /\ friendly_name = [c \in Conns |-> None]
  /\ closed = [c \in Conns |-> FALSE]
  /\ stream = [c \in Conns |-> <<SetUuid(c), ClientList(<<>>)>>]
  /\ acceptPc = "accept"
  /\ cur = NoConn
  /\ client_descriptions = <<>>
  /\ snapTodo = {}
  /\ snapTable = EmptyMap
  /\ snapRenamed = {}
  /\ readerPc = [c \in Conns |-> "read"]
  /\ events = 0
  /\ dropped = {}
  /\ client = [c \in Conns |-> [NewClientState EXCEPT !.uuid = c]]
  /\ handled = [c \in Conns |-> 2]
  /\ handlePc = [c \in Conns |-> "run"]
  /\ uiPc = [c \in Conns |-> "start"]
  /\ sent = [c \in Conns |-> <<>>]
  /\ wire = <<>>
  /\ writeable_half = {}
  /\ buffer_with_length = [t \in Conns |-> <<>>]
  /\ written = <<>>

PairNext ==
  \/ \E c \in Conns : ServerReads(c)
  \/ \E c \in Conns : AdvertiseBroadcast(c)
  \/ \E c \in Conns : ReadEof(c)
  \/ \E c \in Conns : DisconnectBroadcast(c)
  \/ \E c \in Conns : PeerClose(c)
  \/ \E c \in Conns : ClientReads(c)
  \/ \E c \in Conns : \E name \in Names \cup {None} : Running(c) /\ RunUiStart(c, name)
  \/ \E c \in Conns : \E u \in Uuids : Running(c) /\ OpenConnection(c, u)
  \/ \E c \in Conns : \E i \in 1..MaxFrames : Running(c) /\ OpenConnectionSelect(c, i)
  \/ \E c \in Conns : \E d \in Descriptions : Running(c) /\ AcceptConnection(c, d)
  \/ \E c \in Conns : \E t \in Texts : Running(c) /\ UiSendMessage(c, t)

PairSpec == PairInit /\ [][PairNext]_vars

\* ------------------------------------------------ the bytes of one stream
\* the payloads written: the encodings of two messages, of different lengths
Payloads ==
  {<<1>>, <<2, 3>>}

\* client.rs 23: bincode's encoding of buffer.len() as u64, eight bytes with
\* the least significant first
LengthBytes(n) ==
  [i \in 1..8 |-> IF i = 1 THEN n % 256
                  ELSE IF i = 2 THEN (n \div 256) % 256
                  ELSE IF i = 3 THEN (n \div 65536) % 256
                  ELSE 0]

\* client/mod.rs 83-86: the u64 those eight bytes encode; -1 stands for a
\* length of 2^24 or more, which no stream of the model ever fills
DecodeLength(b) ==
  IF \E i \in 4..8 : b[i] # 0 THEN -1
  ELSE b[1] + 256 * b[2] + 65536 * b[3]

RECURSIVE Received(_)
\* client/mod.rs 70-98: the loop of read_exact of 8 bytes, then of as many
\* bytes as they say, over the bytes w; the payloads it has read in full
Received(w) ==
  IF Len(w) < 8 THEN <<>>
  ELSE LET n == DecodeLength(SubSeq(w, 1, 8)) IN
         IF n < 0 \/ Len(w) < 8 + n THEN <<>>
         ELSE <<SubSeq(w, 9, 8 + n)>> \o Received(SubSeq(w, 9 + n, Len(w)))

\* the frames begun so far
Begun ==
  Len(written) + Cardinality({t \in Conns : buffer_with_length[t] # <<>>
                                            /\ t \notin writeable_half})

\* client.rs 19-24: a task builds buffer_with_length for one message
Serialize(t, payload) ==
  /\ buffer_with_length[t] = <<>>
  /\ Begun < MaxFrames
  /\ buffer_with_length' =
       [buffer_with_length EXCEPT ![t] = LengthBytes(Len(payload)) \o payload]
  /\ UNCHANGED <<serverVars, closed, clientVars, sent, wire, writeable_half,
                 written>>

\* a mutex that lets every task in
LockAvailableAlways ==
  TRUE

\* client.rs 26-28: tokio's Mutex gives the guard when no task holds it
LockAvailable ==
  writeable_half = {}

\* client.rs 26-28: self.writeable_half.lock().await
LockWriteHalf(t) ==
  /\ buffer_with_length[t] # <<>>
  /\ t \notin writeable_half
  /\ LockAvailable
  /\ writeable_half' = writeable_half \cup {t}
  /\ written' = Append(written, SubSeq(buffer_with_length[t], 9,
                                       Len(buffer_with_length[t])))
  /\ UNCHANGED <<serverVars, closed, clientVars, sent, wire,
                 buffer_with_length>>

\* client.rs 29-31: write_all writes the next n bytes of the buffer; after
\* the last of them the statement ends and the guard is dropped
WriteSome(t, n) ==
  /\ t \in writeable_half
  /\ n \in 1..Len(buffer_with_length[t])
  /\ wire' = wire \o SubSeq(buffer_with_length[t], 1, n)
  /\ buffer_with_length' =
       [buffer_with_length EXCEPT ![t] = SubSeq(@, n + 1, Len(@))]
  /\ writeable_half' =
       IF n = Len(buffer_with_length[t]) THEN writeable_half \ {t} ELSE writeable_half
  /\ UNCHANGED <<serverVars, closed, clientVars, sent, written>>

\* server/mod.rs 88, 96, 104, 121, 128, 139: the tasks that write to one peer
WireNext ==
  \/ \E t \in Conns : \E payload \in Payloads : Serialize(t, payload)
  \/ \E t \in Conns : LockWriteHalf(t)
  \/ \E t \in Conns : \E n \in 1..Len(buffer_with_length[t]) : WriteSome(t, n)

WireSpec == Init /\ [][WireNext]_vars

\* ------------------------------------------------------------------ claims
Accepted(c) == uuid[c] # NoUuid
Connected(c) == Accepted(c) /\ ~closed[c]
Frames(c) == {stream[c][i] : i \in 1..Len(stream[c])}
ForwardTypes == {"ConnectionRequest", "ConnectionResponse", "Message"}
DeltaTypes == {"NewClient", "ClientDisconnected"}

IsDirectoryFrame(f) == f.type \in {"SetUuid", "ClientList"} \cup DeltaTypes

\* C1: of the SetUuid, ClientList, NewClient and ClientDisconnected frames
\* written to a connected peer, the first is SetUuid(its id) and the second
\* is ClientList, so every NewClient or ClientDisconnected frame comes after
\* both.
C1_JoinFramesFirst ==
  \A c \in Conns :
    Connected(c) =>
      LET dir == SelectSeq(stream[c], IsDirectoryFrame) IN
        /\ Len(dir) >= 1 => dir[1] = SetUuid(uuid[c])
        /\ Len(dir) >= 2 => dir[2].type = "ClientList"

\* C2: a step in which a reader task decodes Message((_, target), envelope)
\* from connection c while target has a record appends
\* Message((c's name or "", c's id), envelope) to the target's stream.
C2_MessageForwarded ==
  [][\A c \in Conns : \A d \in Descriptions : \A e \in Envelopes :
       (ReadMessage(c, d, e) /\ d[2] \in DOMAIN clients /\ Connected(clients[d[2]]))
         => stream'[clients[d[2]]] =
              Append(stream[clients[d[2]]], Message(<<NameOrEmpty(c), uuid[c]>>, e))]_vars

\* C3: in a step in which a reader task forwards a ConnectionRequest or a
\* ConnectionResponse decoded from connection c, every frame written carries
\* the description (c's current name or "", c's uuid), whatever description
\* the request held.
C3_ForwardedDescriptionIsSender ==
  [][\A c \in Conns : \A d \in Descriptions : \A k \in Keys :
       (ReadConnectionRequest(c, d, k) \/ ReadConnectionResponse(c, d, k))
         => \A b \in Conns :
              stream'[b] # stream[b] =>
                /\ Len(stream'[b]) = Len(stream[b]) + 1
                /\ stream'[b][Len(stream'[b])].type \in ForwardTypes
                /\ stream'[b][Len(stream'[b])].desc = <<NameOrEmpty(c), uuid[c]>>]_vars

\* C3 witness: a peer holds a forwarded ConnectionRequest of another, named,
\* connection
C3_Witness ==
  \E b \in Conns : \E f \in Frames(b) :
    /\ f.type = "ConnectionRequest"
    /\ f.desc[1] = "alice"
    /\ f.desc[2] # uuid[b]

SnapshotIds == {client_descriptions[i][2] : i \in 1..Len(client_descriptions)}

\* C4: the snapshot holds no id twice and only ids of records whose friendly
\* name is set; once complete it holds an entry, with the record's name, for
\* every record of the table whose name was set when the snapshot was taken
\* (records that advertised while it was being taken may or may not be listed).
C4_SnapshotListsNamedPeers ==
  acceptPc \in {"snapshot", "sendList"} =>
    /\ \A i, j \in 1..Len(client_descriptions) :
         i # j => client_descriptions[i][2] # client_descriptions[j][2]
    /\ \A i \in 1..Len(client_descriptions) :
         LET e == client_descriptions[i] IN
           /\ e[2] \in DOMAIN snapTable
           /\ friendly_name[snapTable[e[2]]] # None
           /\ snapTable[e[2]] \notin snapRenamed => e[1] = friendly_name[snapTable[e[2]]]
    /\ acceptPc = "sendList" =>
         \A u \in DOMAIN snapTable :
           (snapTable[u] \notin snapRenamed /\ friendly_name[snapTable[u]] # None)
             => u \in SnapshotIds

\* C4 witness: a complete snapshot of a table of three records lists the one
\* named record and omits the two unnamed ones
C4_Witness ==
  /\ acceptPc = "sendList"
  /\ Cardinality(DOMAIN snapTable) = 3
  /\ Len(client_descriptions) = 1
  /\ snapRenamed = {}

\* C5: the departure broadcast of connection c runs after c's record is
\* removed and appends ClientDisconnected(c's id) to the stream of every
\* connected peer that has a record at that moment.
C5_DepartureReachesEveryPeer ==
  [][\A c \in Conns :
       DisconnectBroadcast(c) =>
         /\ uuid[c] \notin DOMAIN clients
         /\ \A b \in Table :
              Connected(b) => stream'[b] = Append(stream[b], ClientDisconnected(uuid[c]))]_vars

PeerListIds(b) ==
  LET l == Handled(b, Len(stream[b])).peer_list IN {l[i][2] : i \in 1..Len(l)}

\* C6: once connection a has departed (its reader task has finished) and the
\* accept handler is done with b, a connected peer b that has processed every
\* frame written to it has no PeerList entry with a's id.
C6_DepartedPeerNotListed ==
  \A a, b \in Conns :
    (/\ a # b
     /\ readerPc[a] = "done"
     /\ Connected(b)
     /\ cur # b
     /\ ServerAlive)
      => uuid[a] \notin PeerListIds(b)

\* C7: every connected peer has exactly one record, stored under the id it
\* was given at accept, and no two accepted connections have the same id.
C7_OneRecordPerConnection ==
  /\ \A c \in Conns :
       Connected(c) =>
         /\ uuid[c] \in DOMAIN clients
         /\ \A u \in DOMAIN clients : clients[u] = c <=> u = uuid[c]
  /\ \A c, e \in Conns : (Accepted(c) /\ Accepted(e) /\ c # e) => uuid[c] # uuid[e]

\* C7 witness: two connected peers have their records after a third has
\* departed and lost its own
C7_Witness ==
  /\ \E c \in Conns : readerPc[c] = "done" /\ uuid[c] \notin DOMAIN clients
  /\ Cardinality({c \in Conns : Connected(c)}) = 2
  /\ Cardinality(DOMAIN clients) = 2

\* C8: the broadcast that follows Advertise(name) from connection c appends
\* NewClient((name, c's id)) to the stream of every connected peer that has a
\* record at that moment, c included.
C8_AdvertiseReachesEveryPeer ==
  [][\A c \in Conns :
       AdvertiseBroadcast(c) =>
         \A b \in Table :
           Connected(b) =>
             stream'[b] = Append(stream[b], NewClient(<<friendly_name[c], uuid[c]>>))]_vars

\* C9: a step in which a reader task decodes a ConnectionRequest,
\* ConnectionResponse or Message whose target id has no record writes no
\* frame, leaves the table and every friendly name as they are, and leaves
\* the reader task in its loop.
C9_AbsentTargetDropped ==
  [][\A c \in Conns : \A d \in Descriptions :
       (/\ d[2] \notin DOMAIN clients
        /\ \/ \E k \in Keys : ReadConnectionRequest(c, d, k)
           \/ \E k \in Keys : ReadConnectionResponse(c, d, k)
           \/ \E e \in Envelopes : ReadMessage(c, d, e))
         => /\ stream' = stream
            /\ clients' = clients
            /\ friendly_name' = friendly_name
            /\ readerPc'[c] = "read"]_vars

\* C9 witness: a connection that had a frame dropped for an absent target has
\* since had a later frame, an Advertise, decoded
C9_Witness ==
  \E c \in Conns :
    /\ c \in dropped
    /\ readerPc[c] = "advertise"
    /\ \A b \in Conns : \A f \in Frames(b) : f.type \notin ForwardTypes

\* C10: no write failure ends the accept loop, and a reader task is ended by
\* a panic only if the failed write was to its own connection, whose peer
\* must then have closed.
C10_WriteFailureIsLocal ==
  /\ acceptPc # "panicked"
  /\ \A c \in Conns : readerPc[c] = "panicked" => closed[c]

\* C11: a step in which a reader task reads a complete frame of connection c
\* whose payload does not decode ends that reader's loop and removes c's
\* record (the departure broadcast follows), and leaves every other record,
\* name and reader as it was.
C11_UndecodableFrameCloses ==
  [][\A c \in Conns :
       ReadUndecodable(c) =>
         /\ readerPc'[c] # "read"
         /\ uuid[c] \notin DOMAIN clients'
         /\ \A b \in Conns \ {c} :
              /\ readerPc'[b] = readerPc[b]
              /\ friendly_name'[b] = friendly_name[b]
              /\ (uuid[b] \in DOMAIN clients') = (uuid[b] \in DOMAIN clients)]_vars

\* the frames on t's stream that the server forwarded from connection s
Forwarded(s, t) ==
  LET FromS(f) == f.type \in ForwardTypes /\ f.desc[2] = uuid[s]
  IN SelectSeq(stream[t], FromS)

IsPrefix(p, q) ==
  Len(p) <= Len(q) /\ \A i \in 1..Len(p) : p[i] = q[i]

\* C18: the frames forwarded from a sender s on a recipient t's stream only
\* grow at their end, whatever step is taken by whatever task; and the frame a
\* reader task forwards for the frame it has just read from s is, when written,
\* the last frame of t's stream, so it comes after every frame read from s
\* before it.
C18_ForwardedInReadOrder ==
  [][/\ \A s, t \in Conns :
          Accepted(s) =>
            LET FromS(f) == f.type \in ForwardTypes /\ f.desc[2] = uuid[s]
            IN IsPrefix(Forwarded(s, t), SelectSeq(stream'[t], FromS))
     /\ \A s \in Conns : \A d \in Descriptions : \A k \in Keys :
          (ReadConnectionRequest(s, d, k) \/ ReadConnectionResponse(s, d, k))
            => \A t \in Conns :
                 \/ stream'[t] = stream[t]
                 \/ /\ d[2] \in DOMAIN clients /\ t = clients[d[2]]
                    /\ \E f \in {ConnectionRequest(<<NameOrEmpty(s), uuid[s]>>, NoKey),
                                 ConnectionResponse(<<NameOrEmpty(s), uuid[s]>>, k)} :
                         stream'[t] = Append(stream[t], f)]_vars

\* C18 witness: a recipient's stream holds two frames forwarded from the same
\* sender, a ConnectionRequest and later a ConnectionResponse, with a frame of
\* another writer (the accept handler's SetUuid) between them
C18_Witness ==
  \E s, t \in Conns : \E i, j, k \in 1..Len(stream[t]) :
    /\ s # t /\ i < j /\ j < k
    /\ stream[t][i].type = "ConnectionRequest" /\ stream[t][i].desc[2] = uuid[s]
    /\ stream[t][j].type = "SetUuid"
    /\ stream[t][k].type = "ConnectionResponse" /\ stream[t][k].desc[2] = uuid[s]

\* ------------------------------------------------------- claims, peer client
PeerListOf(c) == client[c].peer_list
PendingRequests(c) == client[c].connection_requests
EstablishedPairings(c) == client[c].open_connections
CurrentChannel(c) == client[c].current_channel
RequestIds(c) == {e[2] : e \in DOMAIN PendingRequests(c)}

\* C14: open(id) on a client whose pairings hold id sends no frame and changes
\* nothing of the client but its current channel, which becomes id; where the
\* current channel is id already, as after a first such call, the call
\* changes nothing at all.
C14_OpenPairedOnlySwitches ==
  [][\A c \in Conns : \A u \in Uuids :
       (/\ u \in DOMAIN EstablishedPairings(c)
        /\ \/ OpenConnection(c, u)
           \/ \E i \in 1..Len(PeerListOf(c)) :
                PeerListOf(c)[i][2] = u /\ OpenConnectionSelect(c, i))
         => /\ sent' = sent
            /\ client' = [client EXCEPT ![c].current_channel = u]
            /\ CurrentChannel(c) = u => client' = client]_vars

\* C14 witness: a client that was sent one ConnectionResponse and has written
\* nothing has the id of that pairing as its current channel
C14_Witness ==
  \E c \in Conns :
    /\ CurrentChannel(c) # NoUuid
    /\ CurrentChannel(c) \in DOMAIN EstablishedPairings(c)
    /\ sent[c] = <<>>
    /\ Len(stream[c]) = 1 /\ stream[c][1].type = "ConnectionResponse"

\* C15: handling ConnectionRequest(desc, key) while a pending request has the
\* id of desc leaves the pending requests as they are, and after every step no
\* two pending requests have the same id.
C15_DuplicateRequestIgnored ==
  [][/\ \A c \in Conns : \A f \in ClientBound :
          (/\ ClientHandle(c, f)
           /\ f.type = "ConnectionRequest"
           /\ f.desc[2] \in RequestIds(c))
            => PendingRequests(c)' = PendingRequests(c)
     /\ \A c \in Conns : \A d, e \in DOMAIN PendingRequests(c)' :
          d[2] = e[2] => d = e]_vars

\* C15 witness: a client has handled two ConnectionRequest frames of the same
\* id with different names and keys, and holds the name and key of the first
C15_Witness ==
  \E c \in Conns :
    /\ handled[c] = 2 /\ Len(stream[c]) = 2
    /\ stream[c][1].type = "ConnectionRequest"
    /\ stream[c][2].type = "ConnectionRequest"
    /\ stream[c][1].desc[2] = stream[c][2].desc[2]
    /\ stream[c][1].desc[1] # stream[c][2].desc[1]
    /\ stream[c][1].key # stream[c][2].key
    /\ DOMAIN PendingRequests(c) = {stream[c][1].desc}
    /\ PendingRequests(c)[stream[c][1].desc] = stream[c][1].key

\* C16: after a client accepts the pending request of description d, it has
\* no pending request with the id of d.
C16_AcceptConsumesRequest ==
  [][\A c \in Conns : \A d \in OtherDescriptions :
       AcceptConnection(c, d) => d[2] \notin RequestIds(c)']_vars

\* C17: handling a Message whose envelope the client cannot open leaves the
\* handle task running and the client's state as it was.
C17_DecryptFailureDropsMessage ==
  [][\A c \in Conns : \A f \in ClientBound :
       (ClientHandle(c, f) /\ f.type = "Message" /\ ~Decrypts(c, f.envelope))
         => /\ handlePc'[c] = "run"
            /\ client'[c] = client[c]]_vars

\* C20: handling ClientDisconnected(id) changes nothing of the client but its
\* peer list, which becomes the entries of other ids in their order; the
\* pairings, pending requests, current channel and own id stay, also when id
\* is the current channel.
C20_DisconnectedOnlyFiltersPeerList ==
  [][\A c \in Conns : \A f \in ClientBound :
       (ClientHandle(c, f) /\ f.type = "ClientDisconnected")
         => LET Other(d) == d[2] # f.uuid IN
              /\ client'[c] = [client[c] EXCEPT !.peer_list = SelectSeq(@, Other)]
              /\ handlePc'[c] = handlePc[c]]_vars

\* C20 witness: a client paired with X, with X as current channel and X and
\* another peer in its list, has handled ClientDisconnected(X): X is gone from
\* the list, the other entry is there, and the pairing and channel are kept
C20_Witness ==
  \E c \in Conns :
    /\ handled[c] = 3 /\ Len(stream[c]) = 3
    /\ stream[c][2].type = "ClientList" /\ Len(stream[c][2].list) = 2
    /\ stream[c][3].type = "ClientDisconnected"
    /\ CurrentChannel(c) = stream[c][3].uuid
    /\ CurrentChannel(c) \in DOMAIN EstablishedPairings(c)
    /\ Len(PeerListOf(c)) = 1
    /\ PeerListOf(c)[1][2] # CurrentChannel(c)

\* C21: in every state a client reaches, its current channel is unset or an
\* id its pairings hold, and its send-text has never failed to find the key of
\* the current channel; this after any frames handled, ClientDisconnected of
\* the current channel's peer among them, and any open, accept and send-text.
C21_CurrentChannelIsPaired ==
  \A c \in Conns :
    /\ \/ CurrentChannel(c) = NoUuid
       \/ CurrentChannel(c) \in DOMAIN EstablishedPairings(c)
    /\ uiPc[c] # "panicked"

\* C21 witness: a client was sent the ConnectionResponse of X and then
\* ClientDisconnected(X), has X as its current channel and has written a
\* Message for X sealed with the key of the response
C21_Witness ==
  \E c \in Conns :
    /\ handled[c] = 2 /\ Len(stream[c]) = 2
    /\ stream[c][1].type = "ConnectionResponse"
    /\ stream[c][2].type = "ClientDisconnected"
    /\ stream[c][2].uuid = stream[c][1].desc[2]
    /\ CurrentChannel(c) = stream[c][2].uuid
    /\ Len(sent[c]) = 1 /\ sent[c][1].type = "Message"
    /\ sent[c][1].desc[2] = CurrentChannel(c)
    /\ sent[c][1].envelope[1] = stream[c][1].key

\* the ids a client has sent a ConnectionRequest for, and those whose pending
\* request it has accepted (every accept writes a ConnectionResponse)
RequestedIds(c) ==
  {sent[c][i].desc[2] :
     i \in {k \in 1..Len(sent[c]) : sent[c][k].type = "ConnectionRequest"}}
AcceptedIds(c) ==
  {sent[c][i].desc[2] :
     i \in {k \in 1..Len(sent[c]) : sent[c][k].type = "ConnectionResponse"}}

\* C23: a step gives a client's pairings an entry for id X only if the client
\* has sent a ConnectionRequest for X or accepted a pending request of X, and
\* handling a ConnectionResponse of a peer the client never sent a request
\* for leaves the pairings, keys included, as they were.
C23_PairingOnlyByHandshake ==
  [][\A c \in Conns :
       /\ \A x \in DOMAIN EstablishedPairings(c)' \ DOMAIN EstablishedPairings(c) :
            x \in RequestedIds(c)' \cup AcceptedIds(c)'
       /\ \A f \in ClientBound :
            (/\ ClientHandle(c, f)
             /\ f.type = "ConnectionResponse"
             /\ f.desc[2] \notin RequestedIds(c))
              => EstablishedPairings(c)' = EstablishedPairings(c)]_vars

\* C22: whatever part of its stream a connected peer's client has handled, no
\* two entries of its peer list have the same id.
C22_PeerListIdsDistinct ==
  \A c \in Conns : \A n \in 0..Len(stream[c]) :
    Connected(c) =>
      LET l == Handled(c, n).peer_list IN
        \A i, j \in 1..Len(l) : l[i][2] = l[j][2] => i = j

\* ------------------------------------------- claims, server and peer clients
ConnOf(u) == CHOOSE c \in Conns : uuid[c] = u
Settled(c) ==
  /\ Running(c) /\ readerPc[c] = "read" /\ handlePc[c] = "run"
  /\ sent[c] = <<>> /\ handled[c] = Len(stream[c])

\* C12: when peer b has accepted the request of peer a, so that a
\* ConnectionResponse of b is on a's stream, and both peers are connected and
\* have nothing left to be read or handled, then a's pairings map b's id to
\* b's public key and b's pairings map a's id to a's public key.
C12_HandshakePairsBothSides ==
  \A a, b \in Conns :
    (/\ a # b /\ Settled(a) /\ Settled(b)
     /\ \E f \in Frames(a) : f.type = "ConnectionResponse" /\ f.desc[2] = uuid[b])
      => /\ uuid[b] \in DOMAIN EstablishedPairings(a)
         /\ EstablishedPairings(a)[uuid[b]] = PublicKey(b)
         /\ uuid[a] \in DOMAIN EstablishedPairings(b)
         /\ EstablishedPairings(b)[uuid[a]] = PublicKey(a)

\* C13: in every state, for every entry (X, key) of a client's pairings with
\* another peer X, key is the public key of peer X, and peer X holds this
\* client's public key under this client's id in its pairings or among its
\* pending requests.
C13_PairingIsMutual ==
  \A c \in Conns : \A x \in DOMAIN EstablishedPairings(c) \ {uuid[c]} :
    LET p == ConnOf(x) IN
      /\ EstablishedPairings(c)[x] = PublicKey(p)
      /\ \/ /\ uuid[c] \in DOMAIN EstablishedPairings(p)
            /\ EstablishedPairings(p)[uuid[c]] = PublicKey(c)
         \/ \E d \in DOMAIN PendingRequests(p) :
              d[2] = uuid[c] /\ PendingRequests(p)[d] = PublicKey(c)

\* ------------------------------------------------------- claims, byte stream
\* C19: the payloads the receiving loop recovers from the peer's stream are
\* the first of the payloads written, in the order their writers took the
\* write half, whatever part of a frame each write puts out; and they are all
\* of them once no writer is in the middle of a frame.
C19_FramesContiguous ==
  /\ IsPrefix(Received(wire), written)
  /\ writeable_half = {} => Received(wire) = written
  /\ Len(Received(wire)) >= Len(written) - 1

\* C19 witness: one frame has been received, a second task is in the middle
\* of its frame, and a third is waiting for the write half with its buffer
\* built
C19_Witness ==
  \E t, w \in Conns :
    /\ t # w
    /\ t \in writeable_half
    /\ Len(buffer_with_length[t]) \in 1..8
    /\ buffer_with_length[w] # <<>> /\ w \notin writeable_half
    /\ Len(Received(wire)) = 1

====
